---- MODULE Spec2Model ----
(***************************************************************************)
(* Image-Classification-API: the ModelPredictor singleton (app/litemodel), *)
(* the POST /predict and GET /health handlers (app/main) and the settings  *)
(* (app/config) as a state machine.                                        *)
(*                                                                         *)
(* Numbers that stand for scores, thresholds and confidences are counted   *)
(* in units of 0.000025, a quarter of the 0.0001 step round(x, 4) rounds   *)
(* to: 10000 is 0.25, 40000 is 1.0.  File names, extensions and label      *)
(* lines are sequences of one-character strings.                           *)
(***************************************************************************)
EXTENDS Integers, Sequences, FiniteSets, TLC

VARIABLES
    settings,   \* app/config.py Settings, read once (lru_cache)
    ties,       \* how this build's np.argsort orders equal scores
    predictor,  \* the class attributes of litemodel.ModelPredictor
    hist,       \* history: what the _load_model calls did so far
    phase,      \* "import", "startup", "serving", "aborted"; "unit", "rank"
    req,        \* the POST /predict requests in flight, by slot
    served,     \* number of POST /predict requests answered
    metrics,    \* PREDICTION_REQUESTS_TOTAL / PREDICTION_REQUEST_LATENCY
    health,     \* the last GET /health response
    ranked      \* the last direct model_predictor.predict call and its result

vars == <<settings, ties, predictor, hist, phase, req, served, metrics, health, ranked>>

-----------------------------------------------------------------------------
(* Bounds of the model *)

MaxRequests == 3    \* POST /predict requests served in one behaviour
MaxSlots == 2       \* requests in flight at once
MaxConstructs == 3  \* ModelPredictor() constructions in one behaviour
MaxClasses == 3     \* length of the raw score vector
MaxPredictions == 2 \* largest max_predictions drawn for the ranking runs

-----------------------------------------------------------------------------
(* Small helpers *)

Min(a, b) == IF a <= b THEN a ELSE b

Range(s) == {s[i] : i \in DOMAIN s}

\* the characters of the file names and label lines used below
Whitespace == {" ", "\n"}

-----------------------------------------------------------------------------
(* app/config.py *)

ExtJpg == <<".", "j", "p", "g">>
ExtJpeg == <<".", "j", "p", "e", "g">>
ExtPng == <<".", "p", "n", "g">>
ExtWebp == <<".", "w", "e", "b", "p">>

\* Settings(): the defaults (0.25 is 10000 units, 10 MiB is 10485760 bytes)
Settings ==
    [ model_confidence_threshold |-> 10000,
      max_predictions            |-> 5,
      max_upload_size            |-> 10 * 1024 * 1024,
      allowed_extensions         |-> {ExtJpg, ExtJpeg, ExtPng, ExtWebp},
      enable_metrics             |-> TRUE ]

-----------------------------------------------------------------------------
(* The environment of a load: the model artifact and the label file *)

Fixed(n) == [fixed |-> TRUE, value |-> n]
Symbolic == [fixed |-> FALSE, value |-> 0]

LabelLines == << <<"c", "a", "t", "\n">>, <<" ", "d", "o", "g", " ", "\n">> >>

EnvGood ==
    [ model_exists |-> TRUE, session_ok |-> TRUE, input_name |-> "images",
      shape |-> <<Fixed(1), Fixed(3), Fixed(640), Fixed(480)>>,
      labels_exists |-> TRUE, labels_readable |-> TRUE, lines |-> LabelLines ]

EnvNoLabels ==
    [ EnvGood EXCEPT !.shape = <<Symbolic, Fixed(3), Symbolic, Symbolic>>,
                     !.input_name = "input",
                     !.labels_exists = FALSE, !.lines = <<>> ]

EnvMissing == [EnvGood EXCEPT !.model_exists = FALSE]

EnvCorrupt == [EnvGood EXCEPT !.session_ok = FALSE]

EnvBadLabels == [EnvGood EXCEPT !.labels_readable = FALSE]

Envs == {EnvGood, EnvNoLabels, EnvMissing, EnvCorrupt, EnvBadLabels}

-----------------------------------------------------------------------------
(* app/litemodel.py: ModelPredictor *)

\* the class attributes as the class statement leaves them (_session 0 is None)
ModelPredictor ==
    [ _instance     |-> FALSE,
      _session      |-> 0,
      _class_names  |-> <<>>,
      _input_name   |-> "",
      _input_height |-> 224,
      _input_width  |-> 224,
      _model_loaded |-> FALSE ]

\* str.strip(): leading and trailing whitespace removed
RECURSIVE strip(_)
strip(line) ==
    IF line = <<>> THEN <<>>
    ELSE IF Head(line) \in Whitespace THEN strip(Tail(line))
    ELSE IF line[Len(line)] \in Whitespace THEN strip(SubSeq(line, 1, Len(line) - 1))
    ELSE line

\* shape[i] if isinstance(shape[i], int) else 224   (i counted from 0)
InputDim(shape, i) == IF shape[i + 1].fixed THEN shape[i + 1].value ELSE 224

\* the attributes a load assigns
SessionFields == {"_session", "_input_name", "_input_height", "_input_width"}

LoadFields == SessionFields \cup {"_class_names", "_model_loaded"}

\* faulty variant: the flag set with the session, before the labels are read
_load_model_FlagFirst(self, env, handle) ==
    IF ~env.model_exists \/ ~env.session_ok
    THEN [self |-> self, raised |-> TRUE, assigned |-> FALSE, wrote |-> {}]
    ELSE LET s1 == [self EXCEPT !._session = handle,
                                !._input_name = env.input_name,
                                !._input_height = InputDim(env.shape, 2),
                                !._input_width = InputDim(env.shape, 3),
                                !._model_loaded = TRUE]
         IN IF env.labels_exists /\ ~env.labels_readable
            THEN [self |-> s1, raised |-> TRUE, assigned |-> TRUE,
                  wrote |-> SessionFields \cup {"_model_loaded"}]
            ELSE [self |-> [s1 EXCEPT
                      !._class_names =
                          IF env.labels_exists
                          THEN [i \in DOMAIN env.lines |-> strip(env.lines[i])]
                          ELSE <<>>],
                  raised |-> FALSE, assigned |-> TRUE, wrote |-> LoadFields]

\* _load_model: the attributes after the call, whether it raised, whether
\* this attempt assigned the session handle, and the attributes it assigned.
\* handle is the new session object.
_load_model(self, env, handle) ==
    IF ~env.model_exists
    THEN [self |-> self, raised |-> TRUE, assigned |-> FALSE, wrote |-> {}]
    ELSE IF ~env.session_ok
    THEN [self |-> self, raised |-> TRUE, assigned |-> FALSE, wrote |-> {}]
    ELSE LET s1 == [self EXCEPT !._session = handle,
                                !._input_name = env.input_name,
                                !._input_height = InputDim(env.shape, 2),
                                !._input_width = InputDim(env.shape, 3)]
         IN IF env.labels_exists /\ ~env.labels_readable
            THEN [self |-> s1, raised |-> TRUE, assigned |-> TRUE,
                  wrote |-> SessionFields]
            ELSE [self |-> [s1 EXCEPT
                      !._class_names =
                          IF env.labels_exists
                          THEN [i \in DOMAIN env.lines |-> strip(env.lines[i])]
                          ELSE <<>>,
                      !._model_loaded = TRUE],
                  raised |-> FALSE, assigned |-> TRUE, wrote |-> LoadFields]

\* is_loaded
is_loaded(self) == self._model_loaded /\ self._session # 0

\* ModelPredictor(): __new__ then __init__; runs _load_model unless loaded
Construct(self, env, handle) ==
    LET made == [self EXCEPT !._instance = TRUE]
    IN IF ~made._model_loaded
       THEN LET r == _load_model(made, env, handle)
            IN [self |-> r.self, raised |-> r.raised, assigned |-> r.assigned,
                wrote |-> r.wrote, ran |-> TRUE]
       ELSE [self |-> made, raised |-> FALSE, assigned |-> FALSE, wrote |-> {},
             ran |-> FALSE]

-----------------------------------------------------------------------------
(* PIL, as the handlers use it.  Image.open only identifies the file: it    *)
(* fails on bytes no codec recognises (zero-length input included) and      *)
(* leaves the pixel data unread; convert and resize read the pixel data and *)
(* fail when it is truncated or corrupt.                                    *)

\* Image.open(io.BytesIO(contents))
Image_open(upload) ==
    IF upload.codec = "unidentified"
    THEN [raised |-> TRUE, error |-> "cannot identify image file"]
    ELSE [raised |-> FALSE,
          image |-> [mode |-> upload.mode, intact |-> upload.codec = "ok",
                     scores |-> upload.scores]]

\* image.convert("RGB")
Image_convert(image) ==
    IF ~image.intact
    THEN [raised |-> TRUE, error |-> "image file is truncated"]
    ELSE [raised |-> FALSE, image |-> [image EXCEPT !.mode = "RGB"]]

\* image.resize((w, h), resample=Image.BILINEAR)
Image_resize(image, w, h) ==
    IF ~image.intact
    THEN [raised |-> TRUE, error |-> "image file is truncated"]
    ELSE [raised |-> FALSE, image |-> image]

-----------------------------------------------------------------------------
(* app/litemodel.py: ModelPredictor.predict *)

\* round(confidence, 4): to the nearest 0.0001 (4 units), halves to even
round4(x) ==
    LET q == x \div 4
        r == x % 4
    IN IF r < 2 THEN 4 * q
       ELSE IF r > 2 THEN 4 * (q + 1)
       ELSE IF q % 2 = 0 THEN 4 * q ELSE 4 * (q + 1)

\* np.argsort(raw): the class indices (from 0) by ascending score.  The default
\* sort kind is not stable: equal scores come in the order the build gives,
\* "stable" (lower index first) or "reverse" (higher index first).
argsort(raw, tie) ==
    LET n == Len(raw)
        Before(i, j) ==
            \/ raw[i + 1] < raw[j + 1]
            \/ /\ raw[i + 1] = raw[j + 1]
               /\ IF tie = "stable" THEN i < j ELSE i > j
        Pos(i) == Cardinality({j \in 0 .. n - 1 : Before(j, i)})
    IN [k \in 1 .. n |-> CHOOSE i \in 0 .. n - 1 : Pos(i) = k - 1]

\* faulty variant: the [::-1] forgotten, the indices left in ascending order
top_indices_Ascending(raw, top_k, tie) ==
    SubSeq(argsort(raw, tie), 1, Min(top_k, Len(raw)))

\* np.argsort(raw)[::-1][:top_k]
top_indices(raw, top_k, tie) ==
    LET n == Len(raw)
        asc == argsort(raw, tie)
        desc == [k \in 1 .. n |-> asc[n + 1 - k]]
        stop == IF top_k >= 0 THEN Min(top_k, n)
                ELSE IF n + top_k > 0 THEN n + top_k ELSE 0
    IN SubSeq(desc, 1, stop)

\* str(idx)
RECURSIVE str(_)
str(idx) ==
    IF idx < 10 THEN <<ToString(idx)>>
    ELSE str(idx \div 10) \o <<ToString(idx % 10)>>

\* self._class_names[idx] if idx < len(self._class_names) else str(idx)
label(class_names, idx) ==
    IF idx < Len(class_names) THEN class_names[idx + 1] ELSE str(idx)

\* schemas.PredictionResult: confidence has ge=0.0, le=1.0
\* faulty variant: a confidence field without its bounds
PredictionResult_valid_Unbounded(confidence) == TRUE

PredictionResult_valid(confidence) == confidence >= 0 /\ confidence <= 40000

\* faulty variant: the threshold test forgotten
kept_indices_NoThreshold(raw, cfg, tie) ==
    top_indices(raw, Min(Len(raw), cfg.max_predictions), tie)

\* the postprocessing loop: the entries of top_indices at or above the threshold
kept_indices(raw, cfg, tie) ==
    LET top == top_indices(raw, Min(Len(raw), cfg.max_predictions), tie)
        Keep(idx) == raw[idx + 1] >= cfg.model_confidence_threshold
    IN SelectSeq(top, Keep)

\* predict, lines 97-151: what it raises or returns
predict_result(self, image, cfg, tie) ==
    IF ~is_loaded(self)
    THEN [raised |-> TRUE, error |-> "Model not loaded"]
    ELSE LET rgb == IF image.mode # "RGB" THEN Image_convert(image)
                    ELSE [raised |-> FALSE, image |-> image]
         IN IF rgb.raised
            THEN [raised |-> TRUE, error |-> rgb.error]
            ELSE LET resized == Image_resize(rgb.image, self._input_width,
                                             self._input_height)
                 IN IF resized.raised
                    THEN [raised |-> TRUE, error |-> resized.error]
                    ELSE LET raw == resized.image.scores
                             kept == kept_indices(raw, cfg, tie)
                         IN IF \E k \in DOMAIN kept :
                                   ~PredictionResult_valid(round4(raw[kept[k] + 1]))
                            THEN [raised |-> TRUE,
                                  error |-> "1 validation error for PredictionResult"]
                            ELSE [raised |-> FALSE,
                                  predictions |->
                                      [k \in DOMAIN kept |->
                                          [class_name |-> label(self._class_names, kept[k]),
                                           confidence |-> round4(raw[kept[k] + 1])]],
                                  indices |-> kept]

\* faulty variant: a call that fails drops the session
ModelPredictor_predict_DropsSession(self, image, cfg, tie) ==
    LET p == predict_result(self, image, cfg, tie)
    IN p @@ [self |-> IF p.raised THEN [self EXCEPT !._session = 0] ELSE self]

\* predict: its result, and the attributes after the call (it assigns none)
ModelPredictor_predict(self, image, cfg, tie) ==
    predict_result(self, image, cfg, tie) @@ [self |-> self]

-----------------------------------------------------------------------------
(* The uploads: file name, byte length, and what the bytes are to the codecs *)
(* and to the loaded model (the raw scores session.run gives for the image)  *)

UpperCase == <<"A", "B", "C", "D", "E", "F", "G", "H", "I", "J", "K", "L", "M",
               "N", "O", "P", "Q", "R", "S", "T", "U", "V", "W", "X", "Y", "Z">>
LowerCase == <<"a", "b", "c", "d", "e", "f", "g", "h", "i", "j", "k", "l", "m",
               "n", "o", "p", "q", "r", "s", "t", "u", "v", "w", "x", "y", "z">>

NameUpperJpg == <<"B", ".", "J", "P", "G">>
NameTxt == <<"n", ".", "t", "x", "t">>
NameNoDot == <<"j", "p", "g">>

Filenames == {NameUpperJpg, NameTxt, NameNoDot}

Sizes == {Settings.max_upload_size, Settings.max_upload_size + 1}

ImgUnidentified == [codec |-> "unidentified", mode |-> "RGB", scores |-> <<>>]
ImgTruncatedRGB == [codec |-> "truncated", mode |-> "RGB", scores |-> <<>>]
ImgTruncatedL == [codec |-> "truncated", mode |-> "L", scores |-> <<>>]
ImgBus == [codec |-> "ok", mode |-> "RGB", scores |-> <<36000, 2000, 10004>>]
\* two equal scores, both a little above 1 (1.000025)
ImgTie == [codec |-> "ok", mode |-> "L", scores |-> <<40001, 40001>>]
ImgOver == [codec |-> "ok", mode |-> "RGB", scores |-> <<12000, 40003>>]

UploadImages ==
    {ImgUnidentified, ImgTruncatedRGB, ImgTruncatedL, ImgBus, ImgTie, ImgOver}

Upload(f, n, img) ==
    [filename |-> f, size |-> n, codec |-> img.codec, mode |-> img.mode,
     scores |-> img.scores]

\* an upload over the size limit carries no image; a refused name within the
\* limit carries a good one, and the name without a suffix comes with one size
Uploads ==
    {Upload(t[1], t[2], t[3]) : t \in
        {t \in Filenames \X Sizes \X UploadImages :
            /\ t[2] > Settings.max_upload_size => t[3] = ImgUnidentified
            /\ (t[1] # NameUpperJpg /\ t[2] <= Settings.max_upload_size) => t[3] = ImgBus
            /\ t[1] = NameNoDot => t[2] = Settings.max_upload_size}}

\* the bytes decode: every codec step that reads them succeeds
Decodable(upload) == upload.codec = "ok"

\* inference_time_ms of a call, as the clock gives it
Times == {12, 34}

-----------------------------------------------------------------------------
(* app/main.py: POST /predict *)

\* str.lower()
lower(s) ==
    [i \in DOMAIN s |->
        IF \E k \in DOMAIN UpperCase : UpperCase[k] = s[i]
        THEN LowerCase[CHOOSE k \in DOMAIN UpperCase : UpperCase[k] = s[i]]
        ELSE s[i]]

\* pathlib: Path(name).suffix
suffix(name) ==
    LET dots == {i \in DOMAIN name : name[i] = "."}
    IN IF dots = {} THEN <<>>
       ELSE LET i == CHOOSE d \in dots : \A e \in dots : e <= d
            IN IF 1 < i /\ i < Len(name) THEN SubSeq(name, i, Len(name)) ELSE <<>>

HTTPException(status_code, detail) == [status_code |-> status_code, detail |-> detail]

\* stage 1: file_ext = Path(file.filename).suffix.lower(); in allowed_extensions
extension_allowed(upload, cfg) ==
    lower(suffix(upload.filename)) \in cfg.allowed_extensions

\* the handler up to "await file.read()": it raises 400 or goes on
predict_stage1(upload, cfg) ==
    IF ~extension_allowed(upload, cfg)
    THEN [kind |-> "http", metric |-> "error", called |-> FALSE,
          exc |-> HTTPException(400, "Invalid file type. Allowed: {'.jpg', '.jpeg', '.png', '.webp'}")]
    ELSE [kind |-> "await"]

\* stage 3: Image.open, and convert("RGB") unless the mode is RGB already
predict_decode(upload) ==
    LET opened == Image_open(upload)
    IN IF opened.raised THEN opened
       ELSE IF opened.image.mode # "RGB" THEN Image_convert(opened.image)
       ELSE opened

\* the handler from the size check on: how the function ends (a returned
\* PredictionResponse, or the HTTPException it raises), the metric it counts,
\* whether model_predictor.predict was called, the predictor's attributes after
predict_stages(upload, self, cfg, tie, ms) ==
    IF upload.size > cfg.max_upload_size
    THEN [kind |-> "http", metric |-> "error", called |-> FALSE, self |-> self,
          exc |-> HTTPException(413, "File too large. Max size: 10.0MB")]
    ELSE LET decoded == predict_decode(upload)
         IN IF decoded.raised
            THEN [kind |-> "http", metric |-> "error", called |-> FALSE, self |-> self,
                  exc |-> HTTPException(400, "Invalid image file: " \o decoded.error)]
            ELSE LET p == ModelPredictor_predict(self, decoded.image, cfg, tie)
                 IN IF p.raised
                    THEN [kind |-> "http", metric |-> "error", called |-> TRUE,
                          self |-> p.self, exc |-> HTTPException(500, p.error)]
                    ELSE [kind |-> "return", metric |-> "success", called |-> TRUE,
                          self |-> p.self,
                          response |-> [success |-> TRUE,
                                        predictions |-> p.predictions,
                                        model_version |-> "yolo11l-cls",
                                        inference_time_ms |-> ms]]

\* @app.exception_handler(500): what an exception that escapes a handler gets
internal_error_handler ==
    [status_code |-> 500,
     body |-> [success |-> FALSE, error |-> "Internal Server Error",
               detail |-> "An unexpected error occurred"]]

\* faulty variant: the error body in the ErrorResponse shape
http_exception_response_ErrorShape(exc) ==
    [status_code |-> exc.status_code,
     body |-> [success |-> FALSE, error |-> exc.detail, detail |-> exc.detail]]

\* a raised HTTPException is answered by the framework's own handler, whatever
\* its status code: the status and {"detail": detail}
http_exception_response(exc) ==
    [status_code |-> exc.status_code, body |-> [detail |-> exc.detail]]

\* the response the client gets for the way the handler function ended
respond(outcome) ==
    IF outcome.kind = "return" THEN [status_code |-> 200, body |-> outcome.response]
    ELSE IF outcome.kind = "http" THEN http_exception_response(outcome.exc)
    ELSE internal_error_handler

\* PREDICTION_REQUEST_LATENCY.observe(elapsed); PREDICTION_REQUESTS_TOTAL...inc()
\* faulty variant: the catch-all clause also counts what the success path counted
record_metrics_CountedTwice(m, cfg, metric) ==
    IF cfg.enable_metrics
    THEN [m EXCEPT !.latency = @ + 1, !.success = @ + (IF metric = "success" THEN 1 ELSE 0),
                   !.error = @ + 1]
    ELSE m

record_metrics(m, cfg, metric) ==
    IF cfg.enable_metrics
    THEN [m EXCEPT !.latency = @ + 1, ![metric] = @ + 1]
    ELSE m

-----------------------------------------------------------------------------
(* State *)

Slots == 1 .. MaxSlots

Idle == [pc |-> "idle"]

NoHealth == [status_code |-> 0]

NoCall == [called |-> FALSE]

\* writer: the load attempt that last assigned each attribute (0: the class
\* statement); last: the latest ModelPredictor() call; handled: the requests
\* the body of predict has answered; ok: the 200 answers among them; writes:
\* the calls of model_predictor.predict that left an attribute changed
NoHist ==
    [constructs |-> 0, loads |-> 0, assigns |-> 0, after_loaded |-> 0,
     writer |-> [f \in LoadFields |-> 0],
     last |-> [ran |-> FALSE, raised |-> FALSE, wrote |-> {}],
     handled |-> 0, ok |-> 0, writes |-> 0]

NoMetrics == [success |-> 0, error |-> 0, latency |-> 0]

InFlight == Cardinality({r \in Slots : req[r].pc = "read"})

\* a finished request: what was sent, what came back, and whether
\* model_predictor.predict ran for it
Done(upload, outcome) ==
    LET resp == respond(outcome)
    IN [pc |-> "done", upload |-> upload, status_code |-> resp.status_code,
        body |-> resp.body, called |-> outcome.called]

\* the history after a ModelPredictor() call r made on attributes `before`
\* (its load attempt, if it ran one, is attempt h.loads + 1)
Noted(h, before, r) ==
    [h EXCEPT
       !.constructs = @ + 1,
       !.loads = @ + (IF r.ran THEN 1 ELSE 0),
       !.assigns = @ + (IF r.assigned THEN 1 ELSE 0),
       !.after_loaded = @ +
          (IF before._model_loaded
              /\ (r.ran \/ [r.self EXCEPT !._instance = before._instance] # before)
           THEN 1 ELSE 0),
       !.writer = [f \in LoadFields |-> IF f \in r.wrote THEN h.loads + 1 ELSE @[f]],
       !.last = [ran |-> r.ran, raised |-> r.raised, wrote |-> r.wrote]]

\* the history after predict answered a request with `outcome`, the
\* attributes being `before` when it started
Answered(h, before, outcome) ==
    [h EXCEPT !.handled = @ + 1,
              !.ok = @ + (IF respond(outcome).status_code = 200 THEN 1 ELSE 0),
              !.writes = @ + (IF outcome.self # before THEN 1 ELSE 0)]

-----------------------------------------------------------------------------
(* Actions *)

\* litemodel.py: model_predictor = ModelPredictor().  At import (app.main
\* imports app.litemodel) an exception ends the process; a harness may call
\* ModelPredictor() again, whatever the earlier call did.
NewModelPredictor ==
    /\ phase \in {"import", "unit"}
    /\ hist.constructs < MaxConstructs
    /\ \E env \in Envs :
          LET r == Construct(predictor, env, hist.loads + 1)
          IN /\ predictor' = r.self
             /\ hist' = Noted(hist, predictor, r)
             /\ phase' = IF phase = "unit" THEN "unit"
                         ELSE IF r.raised THEN "aborted" ELSE "startup"
    /\ UNCHANGED <<settings, ties, req, served, metrics, health, ranked>>

\* main.py: startup_event
startup_event ==
    /\ phase = "startup"
    /\ phase' = IF ~is_loaded(predictor) THEN "aborted" ELSE "serving"
    /\ UNCHANGED <<settings, ties, predictor, hist, req, served, metrics, health, ranked>>

\* faulty variant: the 503 branch forgotten
health_response_Always200(self) ==
    LET is_healthy == is_loaded(self)
    IN [status_code |-> 200,
        body |-> [status |-> IF is_healthy THEN "healthy" ELSE "unhealthy",
                  model_loaded |-> is_healthy,
                  model_path |-> "./models/yolo11l-cls.onnx"]]

\* main.py: health_check, the response (uptime_seconds, a clock reading, is
\* left out)
health_response(self) ==
    LET is_healthy == is_loaded(self)
        response == [status |-> IF is_healthy THEN "healthy" ELSE "unhealthy",
                     model_loaded |-> is_healthy,
                     model_path |-> "./models/yolo11l-cls.onnx"]
    IN IF ~is_healthy
       THEN [status_code |-> 503, body |-> response]
       ELSE [status_code |-> 200, body |-> response]

\* main.py: health_check; session_set and flag_set note the attributes it saw
health_check ==
    /\ phase \in {"serving", "unit"}
    /\ health' = health_response(predictor) @@
                    [session_set |-> predictor._session # 0,
                     flag_set |-> predictor._model_loaded]
    /\ UNCHANGED <<settings, ties, predictor, hist, phase, req, served, metrics, ranked>>

\* main.py: predict, from the request's arrival to "await file.read()"
PredictStart ==
    /\ phase = "serving"
    /\ served + InFlight < MaxRequests
    /\ \E r \in Slots, upload \in Uploads :
          /\ req[r].pc = "idle"
          /\ \A q \in Slots : q < r => req[q].pc # "idle"
          /\ LET outcome == predict_stage1(upload, settings)
             IN IF outcome.kind = "await"
                THEN /\ req' = [req EXCEPT ![r] = [pc |-> "read", upload |-> upload]]
                     /\ UNCHANGED <<served, metrics, hist>>
                ELSE /\ req' = [req EXCEPT ![r] = Done(upload, outcome)]
                     /\ served' = served + 1
                     /\ metrics' = record_metrics(metrics, settings, outcome.metric)
                     /\ hist' = Answered(hist, predictor, outcome @@ [self |-> predictor])
    /\ UNCHANGED <<settings, ties, predictor, phase, health, ranked>>

\* main.py: file: UploadFile = File(...). A request without the multipart
\* field `file` is answered 422 by the framework's request validation; the
\* body of predict does not run.
PredictUnprocessable ==
    /\ phase = "serving"
    /\ served + InFlight < MaxRequests
    /\ served' = served + 1
    /\ UNCHANGED <<settings, ties, predictor, hist, phase, req, metrics, health, ranked>>

\* main.py: predict, from the size check to the response
PredictFinish ==
    /\ phase = "serving"
    /\ \E r \in Slots, ms \in Times :
          /\ req[r].pc = "read"
          /\ LET outcome == predict_stages(req[r].upload, predictor, settings, ties, ms)
             IN /\ req' = [req EXCEPT ![r] = Done(req[r].upload, outcome)]
                /\ predictor' = outcome.self
                /\ served' = served + 1
                /\ metrics' = record_metrics(metrics, settings, outcome.metric)
                /\ hist' = Answered(hist, predictor, outcome)
    /\ UNCHANGED <<settings, ties, phase, health, ranked>>

\* the response has left; the slot takes the next request
Release ==
    /\ \E r \in Slots :
          /\ req[r].pc = "done"
          /\ req' = [req EXCEPT ![r] = Idle]
    /\ UNCHANGED <<settings, ties, predictor, hist, phase, served, metrics, health, ranked>>

\* a direct call of model_predictor.predict(image)
RankVectors == UNION {[1 .. n -> {-3, 9996, 10001, 20000, 40003}] : n \in 0 .. MaxClasses}

CallImages ==
    IF phase = "rank"
    THEN {[mode |-> "RGB", intact |-> TRUE, scores |-> v] : v \in RankVectors}
    ELSE {[mode |-> "L", intact |-> TRUE, scores |-> ImgBus.scores],
          [mode |-> "L", intact |-> FALSE, scores |-> <<>>]}

PredictCall ==
    /\ phase \in {"unit", "rank"}
    /\ phase = "rank" => ~ranked.called
    /\ \E image \in CallImages :
          LET p == ModelPredictor_predict(predictor, image, settings, ties)
          IN /\ ranked' = [called |-> TRUE, image |-> image, result |-> p]
             /\ predictor' = p.self
    /\ UNCHANGED <<settings, ties, hist, phase, req, served, metrics, health>>

-----------------------------------------------------------------------------
(* Specifications *)

Ties == {"stable", "reverse"}

InitCommon ==
    /\ ties \in Ties
    /\ hist = NoHist
    /\ req = [r \in Slots |-> Idle]
    /\ served = 0
    /\ metrics = NoMetrics
    /\ health = NoHealth
    /\ ranked = NoCall

\* the service process: import, startup, then requests
Init ==
    /\ InitCommon
    /\ settings = Settings
    /\ predictor = ModelPredictor
    /\ phase = "import"

Next ==
    \/ NewModelPredictor
    \/ startup_event
    \/ health_check
    \/ PredictStart
    \/ PredictFinish
    \/ PredictUnprocessable
    \/ Release

Spec == Init /\ [][Next]_vars

\* the class and the health handler driven directly, as a test harness does
InitUnit ==
    /\ InitCommon
    /\ settings = Settings
    /\ predictor = ModelPredictor
    /\ phase = "unit"

NextUnit ==
    \/ NewModelPredictor
    \/ health_check
    \/ PredictCall

SpecUnit == InitUnit /\ [][NextUnit]_vars

\* model_predictor.predict on a loaded session, over the settings
Thresholds == {0, 10000, 10001}

InitRank ==
    /\ InitCommon
    /\ settings \in {[Settings EXCEPT !.model_confidence_threshold = t,
                                      !.max_predictions = m] :
                        t \in Thresholds, m \in 0 .. MaxPredictions}
    /\ predictor \in {Construct(ModelPredictor, env, 1).self : env \in {EnvGood, EnvNoLabels}}
    /\ phase = "rank"

NextRank == PredictCall

SpecRank == InitRank /\ [][NextRank]_vars

-----------------------------------------------------------------------------
(* The claims *)

DoneSlots == {r \in Slots : req[r].pc = "done"}

Failed(r) == req[r].status_code # 200

InSize(upload) == upload.size <= settings.max_upload_size

Returned == ranked.called /\ ~ranked.result.raised

\* C1: POST /predict runs extension check, size check, decode, prediction in
\* that order and the first failing stage decides: a disallowed extension
\* gives 400, an allowed one with more than max_upload_size bytes gives 413,
\* an allowed in-size upload that fails to decode gives 400, and
\* model_predictor.predict is called only when all three stages succeeded.
C1_FirstFailingStageDecides ==
    \A r \in DoneSlots :
        LET u == req[r].upload
            allowed == extension_allowed(u, settings)
        IN /\ ~allowed => req[r].status_code = 400
           /\ allowed /\ ~InSize(u) => req[r].status_code = 413
           /\ allowed /\ InSize(u) /\ ~Decodable(u) => req[r].status_code = 400
           /\ req[r].called => allowed /\ InSize(u) /\ Decodable(u)

C3_TiesLowerIndexFirst ==
    Returned =>
        LET raw == ranked.image.scores
            idx == ranked.result.indices
        IN /\ \A k, l \in DOMAIN idx :
                 k < l => \/ raw[idx[k] + 1] > raw[idx[l] + 1]
                          \/ raw[idx[k] + 1] = raw[idx[l] + 1] /\ idx[k] < idx[l]
           /\ \A i \in Range(idx), j \in (0 .. Len(raw) - 1) \ Range(idx) :
                 raw[i + 1] = raw[j + 1] => i < j

\* C3, amended: the list is in descending order of score and of confidence;
\* classes with equal scores come in the reverse of the order np.argsort gives
\* them, so with a stable sort the higher class index comes first and is the
\* one kept when the cut falls between them.
C3_DescendingTiesReversed ==
    Returned =>
        LET raw == ranked.image.scores
            idx == ranked.result.indices
            preds == ranked.result.predictions
            First(i, j) == IF ties = "stable" THEN i > j ELSE i < j
        IN /\ \A k, l \in DOMAIN idx :
                 k < l => /\ raw[idx[k] + 1] >= raw[idx[l] + 1]
                          /\ preds[k].confidence >= preds[l].confidence
                          /\ raw[idx[k] + 1] = raw[idx[l] + 1] => First(idx[k], idx[l])
           /\ \A i \in Range(idx), j \in (0 .. Len(raw) - 1) \ Range(idx) :
                 /\ raw[i + 1] >= raw[j + 1]
                 /\ raw[i + 1] = raw[j + 1] => First(i, j)

\* two entries of equal score in the list and a third class of that score cut
C3_Witness ==
    /\ Returned
    /\ ties = "stable"
    /\ LET raw == ranked.image.scores
           idx == ranked.result.indices
       IN /\ Len(idx) = 2
          /\ raw[idx[1] + 1] = raw[idx[2] + 1]
          /\ \E j \in (0 .. Len(raw) - 1) \ Range(idx) : raw[j + 1] = raw[idx[1] + 1]

\* C4: GET /health answers 200, "healthy", model_loaded true exactly when the
\* session is loaded (flag set and session assigned), and 503, "unhealthy",
\* model_loaded false otherwise.
C4_HealthAgreesWithLoaded ==
    health.status_code # 0 =>
        IF health.flag_set /\ health.session_set
        THEN /\ health.status_code = 200
             /\ health.body.status = "healthy"
             /\ health.body.model_loaded
        ELSE /\ health.status_code = 503
             /\ health.body.status = "unhealthy"
             /\ ~health.body.model_loaded

\* /health asked after a load that assigned the session and then failed
C4_Witness ==
    /\ health.status_code = 503
    /\ health.session_set
    /\ ~health.flag_set

\* C5: whenever the service is serving or has a request in hand, the session
\* is loaded, no /health response is 503 and no /predict response reports
\* "Model not loaded".
C5_LoadedWhileServing ==
    /\ (phase = "serving" \/ health.status_code # 0 \/ \E r \in Slots : req[r].pc # "idle")
          => predictor._model_loaded /\ predictor._session # 0
    /\ health.status_code # 503
    /\ \A r \in DoneSlots : Failed(r) => req[r].body.detail # "Model not loaded"

\* a request waiting for its bytes while another was answered with an error
C5_Witness ==
    /\ phase = "serving"
    /\ health.status_code = 200
    /\ \E r1, r2 \in Slots :
          /\ req[r1].pc = "read"
          /\ req[r2].pc = "done"
          /\ req[r2].status_code = 500

\* C6: over any sequence of ModelPredictor() constructions at most one load
\* attempt assigns the session handle, and once the flag is set no
\* _load_model call runs and no attribute is written again.
C6_AtMostOneLoadAssignsSession ==
    /\ hist.assigns <= 1
    /\ hist.after_loaded = 0

\* C7: every 500 response of POST /predict carries only the generic detail,
\* and every 4xx response carries the specific reason.
C7_GenericDetailOn500 ==
    \A r \in DoneSlots :
        /\ req[r].status_code >= 500
              => req[r].body.detail = "An unexpected error occurred"
        /\ req[r].status_code \in 400 .. 499
              => req[r].body.detail # "An unexpected error occurred"

\* C8, as stated: every failure response of POST /predict has both an error
\* field and a detail field.
C8_ErrorAndDetail ==
    \A r \in DoneSlots :
        Failed(r) => {"error", "detail"} \subseteq DOMAIN req[r].body

\* C8, amended: every failure response of POST /predict (400, 413, 500) has
\* the body {detail}: a detail field whichever stage failed, and no error
\* field.
C8_DetailOnly ==
    \A r \in DoneSlots :
        Failed(r) => /\ req[r].status_code \in {400, 413, 500}
                     /\ DOMAIN req[r].body = {"detail"}

\* failures of three stages answered side by side would need three slots;
\* here a 413 beside a 500
C8_Witness ==
    \E r1, r2 \in DoneSlots :
        /\ req[r1].status_code = 413
        /\ req[r2].status_code = 500

\* C9: an upload that passed the extension and size checks and whose bytes
\* fail to decode is answered 400, never reaches model_predictor.predict and
\* is never answered 500, whatever the colour mode.
C9_DecodeFailureIs400 ==
    \A r \in DoneSlots :
        LET u == req[r].upload
        IN extension_allowed(u, settings) /\ InSize(u) /\ u.codec # "ok"
              => /\ req[r].status_code = 400
                 /\ ~req[r].called

\* C10: two requests with the same bytes and file name get the same status
\* and, on success, the same predictions, whatever ran in between or beside
\* them; only inference_time_ms may differ.
C10_SameUploadSameOutcome ==
    \A r1, r2 \in DoneSlots :
        req[r1].upload = req[r2].upload
           => /\ req[r1].status_code = req[r2].status_code
              /\ req[r1].called = req[r2].called
              /\ IF req[r1].status_code = 200
                 THEN req[r1].body.predictions = req[r2].body.predictions
                 ELSE req[r1].body = req[r2].body

\* the same image answered twice, with another request served in between
C10_Witness ==
    /\ served = 3
    /\ \E r1, r2 \in DoneSlots :
          /\ r1 # r2
          /\ req[r1].upload = req[r2].upload
          /\ req[r1].status_code = 200
          /\ Len(req[r1].body.predictions) >= 2
          /\ req[r1].body.inference_time_ms # req[r2].body.inference_time_ms

\* C11: the flag is set only after every load step succeeded: whenever
\* is_loaded() is true the session, input name, input height and width and
\* class labels were all assigned by one load attempt, the one that set the
\* flag; and a load attempt in which a step failed, the session assigned or
\* not, raises to the caller and leaves the session not loaded.
C11_NoPartialLoad ==
    /\ is_loaded(predictor) =>
          \A f \in LoadFields : hist.writer[f] = predictor._session
    /\ (hist.last.ran /\ hist.last.wrote # LoadFields) =>
          /\ hist.last.raised
          /\ ~is_loaded(predictor)

\* a load that assigned the session and failed at the labels, seen by the
\* caller, after which a second construction loaded everything anew
C11_Witness ==
    /\ is_loaded(predictor)
    /\ hist.assigns = 2
    /\ predictor._session = 2

\* the response the request in slot r, which reached model_predictor.predict,
\* gets when it is served alone by the session as it is now, the inference
\* taking the time it took
Alone(r) ==
    LET ms == IF req[r].status_code = 200 THEN req[r].body.inference_time_ms ELSE 0
    IN Done(req[r].upload,
            predict_stages(req[r].upload, predictor, settings, ties, ms))

\* C12: predict writes no shared state: no call of predict, whatever other
\* requests are in flight, has left the session handle, input name, input
\* height and width, class labels or loaded flag changed, and every response
\* is the one its own upload gets from the session alone.
C12_PredictWritesNothing ==
    /\ hist.writes = 0
    /\ \A r \in DoneSlots : req[r].called => req[r] = Alone(r)

\* a request went through predict and was answered while another request,
\* admitted before it, was still in flight
C12_Witness ==
    /\ served = 1
    /\ req[1].pc = "read"
    /\ req[2].pc = "done"
    /\ req[2].called
    /\ req[2].upload # req[1].upload

\* C13 as stated: with metrics enabled the success and error counts add up to
\* the number of completed POST /predict requests, there is one latency
\* observation for each, and the success count is the number of 200 responses.
C13_EveryRequestCountedOnce ==
    settings.enable_metrics =>
        /\ metrics.success + metrics.error = served
        /\ metrics.latency = served
        /\ metrics.success = hist.ok

\* C13 amended: with metrics enabled every request the body of predict
\* answers is counted once, as success or as error, with one latency
\* observation; the success count is the number of 200 responses; a request
\* the framework answers 422 before predict runs is counted nowhere.
C13_EveryHandledRequestCountedOnce ==
    settings.enable_metrics =>
        /\ metrics.success + metrics.error = hist.handled
        /\ metrics.latency = hist.handled
        /\ metrics.success = hist.ok
        /\ hist.handled <= served

\* a success, an error and a request without the file field have completed
C13_Witness ==
    /\ settings.enable_metrics
    /\ served = 3
    /\ metrics.success = 1
    /\ metrics.error = 1

\* the raw scores of the entries predict looks at for an upload: the top
\* max_predictions of the ranking
TopSeq(upload) ==
    LET raw == upload.scores
        top == top_indices(raw, Min(Len(raw), settings.max_predictions), ties)
    IN [k \in DOMAIN top |-> raw[top[k] + 1]]

TopScores(upload) == Range(TopSeq(upload))

\* every prediction of a 200 response has its confidence within [0, 1]
InRange(r) ==
    req[r].status_code = 200 =>
        \A k \in DOMAIN req[r].body.predictions :
            /\ req[r].body.predictions[k].confidence >= 0
            /\ req[r].body.predictions[k].confidence <= 40000

\* C14 as stated: every confidence of a 200 response is within [0, 1], and a
\* request whose image predict scored above 1 among the top max_predictions
\* entries ends as 500.
C14_ScoreOverOneIs500 ==
    \A r \in DoneSlots :
        /\ InRange(r)
        /\ (req[r].called /\ \E x \in TopScores(req[r].upload) : x > 40000)
              => req[r].status_code = 500

\* C14 amended: every confidence of a 200 response is within [0, 1] and a 200
\* response has one prediction for every top entry at or above the threshold;
\* a request with a top entry whose score rounded to four decimals is above 1
\* ends as 500.  (A score above 1 that rounds to 1.0 is returned as 1.0.)
C14_RoundedOverOneIs500 ==
    \A r \in DoneSlots :
        /\ InRange(r)
        /\ req[r].status_code = 200 =>
              LET top == TopSeq(req[r].upload)
              IN Len(req[r].body.predictions) =
                     Cardinality({k \in DOMAIN top :
                         top[k] >= settings.model_confidence_threshold})
        /\ (req[r].called /\ \E x \in TopScores(req[r].upload) : round4(x) > 40000)
              => req[r].status_code = 500

\* one request scored above 1 after rounding and ended as 500; another scored
\* above 1 before rounding only and got 200 with confidence 1.0
C14_Witness ==
    \E r, q \in DoneSlots :
        /\ req[r].called
        /\ req[r].status_code = 500
        /\ \E x \in TopScores(req[r].upload) : round4(x) > 40000
        /\ req[q].status_code = 200
        /\ \E x \in TopScores(req[q].upload) : x > 40000
        /\ \A k \in DOMAIN req[q].body.predictions :
              req[q].body.predictions[k].confidence = 40000

====
